---- MODULE Spec2Model ----
(***************************************************************************)
(* Model of rbf/stencil.py: the boundary-aware nearest-neighbour search    *)
(* (distance, nearest) and the stencil builder (stencil_network) with its  *)
(* graph helpers (stencils_to_edges, is_connected, connectivity).          *)
(*                                                                         *)
(* Points are 1-dimensional: a (P,1) table of integer coordinates, so the  *)
(* Euclidean distance sqrt(sum((pnts-test)**2,1)) is exactly |pnts-test|.  *)
(* A boundary in one dimension is a set of vertices; vertex w of the model *)
(* sits at coordinate w + 1/2, strictly between the grid points w and w+1. *)
(* Tables are functions on 0..n-1 (the source's indices); a row of a       *)
(* neighbour table is a sequence of population indices.                    *)
(***************************************************************************)
EXTENDS Integers, Sequences, FiniteSets, TLC

\* ---------------------------------------------------------------- bounds
MaxCoord == 2      \* coordinates are drawn from 0..MaxCoord
MaxP == 3          \* largest population / node count
MaxC == 3          \* largest requested connectivity
MaxSpacing == 2    \* largest spacing of the collinear nodes

\* np.inf (stencil.py line 74, 158, 171): larger than every distance
Inf == 1000000

Coord == 0 .. MaxCoord
Walls == 0 .. (MaxCoord - 1)

\* ------------------------------------------------------- small utilities
Size(t) == Cardinality(DOMAIN t)

Range(s) == {s[k] : k \in DOMAIN s}

MinOf(S) == CHOOSE m \in S : \A x \in S : m <= x

MaxOf(S) == CHOOSE m \in S : \A x \in S : m >= x

\* all non-decreasing sequences of length n over lo..MaxCoord
RECURSIVE SortedSeqs(_, _)
SortedSeqs(n, lo) ==
    IF n = 0 THEN {<<>>}
    ELSE UNION {{<<c>> \o s : s \in SortedSeqs(n - 1, c)} : c \in lo .. MaxCoord}

\* the table (function on 0..n-1) holding the entries of a sequence
Table(s) == [j \in 0 .. (Len(s) - 1) |-> s[j + 1]]

\* ------------------------------------------------- Boundary-aware distance
\* faulty variant of Euclid: the difference is neither squared nor rooted
Euclid_signed(a, b) == a - b

\* np.sqrt(np.sum((pnts-test)**2,1)) for one-column tables
Euclid(a, b) == IF a >= b THEN a - b ELSE b - a

\* rbf.geometry.intersection_count for one segment: the number of boundary
\* vertices lying between the two end points (0 = no crossing)
intersection_count(a, b, walls) ==
    Cardinality({w \in walls : (a <= w /\ w < b) \/ (b <= w /\ w < a)})

\* vert defaults to an empty vertex table when it is None (lines 59-60)
Vertices(v) == IF v.none THEN {} ELSE v.walls

\* faulty variant of OracleMask: every segment is handed to the oracle
OracleMask_all(d) == TRUE

\* the segments distance() hands to the oracle: only those of non-zero
\* length (the mask dist != 0.0 of lines 70-73)
OracleMask(d) == d # 0

\* faulty variant of distance: line 74 missing, a crossing leaves the distance finite
distance_keeps_crossing(test, pnt, v) == Euclid(test, pnt)

\* distance(test, pnts, vert, smp) for one candidate point
distance(test, pnt, v) ==
    LET d  == Euclid(test, pnt)
        cc == IF OracleMask(d) THEN intersection_count(test, pnt, Vertices(v))
              ELSE 0
    IN IF cc > 0 THEN Inf ELSE d

\* ------------------------------------------------------- spatial index
\* The k smallest keys of S listed in ascending order of key.  Neither the
\* tree nor argsort documents the order of equal keys; a library lists them
\* in a fixed order, modelled by the policies "low" (smaller index first)
\* and "high" (larger index first).  A policy is "unset" until the library
\* is first used and stays what it was found to be.
Policies(p) == IF p = "unset" THEN {"low", "high"} ELSE {p}

RECURSIVE KSmallest(_, _, _, _)
KSmallest(S, key, k, policy) ==
    IF k = 0 \/ S = {} THEN <<>>
    ELSE LET m    == MinOf({key[j] : j \in S})
             same == {x \in S : key[x] = m}
             j    == IF policy = "low" THEN MinOf(same) ELSE MaxOf(same)
         IN <<j>> \o KSmallest(S \ {j}, key, k - 1, policy)

\* faulty variant of TreeQuery: an index that leaves the query point itself, and
\* every point coincident with it, to the last
TreeQuery_self_last(pop, x, k, policy) ==
    KSmallest(DOMAIN pop,
              [j \in DOMAIN pop |-> IF Euclid(x, pop[j]) = 0 THEN Inf
                                    ELSE Euclid(x, pop[j])], k, policy)

\* cKDTree(population).query(x, k): indices of the k nearest points
TreeQuery(pop, x, k, policy) ==
    KSmallest(DOMAIN pop, [j \in DOMAIN pop |-> Euclid(x, pop[j])], k, policy)

\* np.argsort(dist_i)[:n] over the positions of a candidate row
ArgsortFirst(d, n, policy) == KSmallest(DOMAIN d, d, n, policy)

\* T.query(query, N): one row of N indices per query point (line 144)
BatchQuery(q, pop, n, policy) ==
    [j \in DOMAIN q |-> TreeQuery(pop, q[j], n, policy)]

\* the tree's distances for a table of index rows
TreeDist(q, pop, nb) ==
    [j \in DOMAIN q |-> [k \in DOMAIN nb[j] |-> Euclid(q[j], pop[nb[j][k]])]]

\* faulty variant of excluding_bool: line 119 missing, no point is marked
excluding_bool_unmarked(ex, j) == FALSE

\* excluding_bool of lines 112-119
excluding_bool(ex, j) == (~ex.none) /\ j \in ex.idx

\* lines 157-158 and 170-171: boundary-aware distances of a candidate row,
\* excluded candidates forced to infinity
MaskedDist(x, pop, row, v, ex) ==
    [k \in DOMAIN row |->
        IF excluding_bool(ex, row[k]) THEN Inf ELSE distance(x, pop[row[k]], v)]

\* the segments a call distance(x, population[row]) sends to the oracle
\* (lines 70-73): those the mask keeps
OracleSegments(x, pop, row) ==
    {<<x, pop[row[k]]>> :
        k \in {m \in DOMAIN row : OracleMask(Euclid(x, pop[row[m]]))}}

AnyInf(d) == \E k \in DOMAIN d : d[k] = Inf

\* ------------------------------------------------ graph connectivity
\* faulty variant of stencils_to_edges: only the first column makes edges
stencils_to_edges_first_column(st) == {<<a, st[a][1]>> : a \in DOMAIN st}

\* stencils_to_edges: every (row index, neighbour) pair of the stencil
stencils_to_edges(st) ==
    UNION {{<<a, st[a][k]>> : k \in DOMAIN st[a]} : a \in DOMAIN st}

\* networkx.Graph(edges): the nodes are the end points of the edges
GraphNodes(E) == {e[1] : e \in E} \cup {e[2] : e \in E}

Adjacent(E, a, b) == a # b /\ (<<a, b>> \in E \/ <<b, a>> \in E)

RECURSIVE Component(_, _, _)
Component(E, V, R) ==
    LET R2 == R \cup {b \in V : \E a \in R : Adjacent(E, a, b)}
    IN IF R2 = R THEN R ELSE Component(E, V, R2)

\* the subgraph induced on V is connected
ConnectedOn(E, V) ==
    V = {} \/ Component(E, V, {CHOOSE x \in V : TRUE}) = V

\* is_connected(stencils)
is_connected(st) ==
    LET E == stencils_to_edges(st) IN ConnectedOn(E, GraphNodes(E))

\* faulty variant of node_connectivity: a complete graph, which no removal
\* of nodes disconnects, is given the connectivity 0
node_connectivity_no_cut(E) ==
    LET V    == GraphNodes(E)
        cuts == {X \in SUBSET V : ~ConnectedOn(E, V \ X)}
    IN IF Cardinality(V) < 2 \/ ~ConnectedOn(E, V) \/ cuts = {} THEN 0
       ELSE MinOf({Cardinality(X) : X \in cuts})

\* networkx.node_connectivity: 0 for fewer than two nodes or a disconnected
\* graph, n-1 for a complete graph, else the size of a smallest vertex cut
node_connectivity(E) ==
    LET V == GraphNodes(E)
        n == Cardinality(V)
    IN IF n < 2 \/ ~ConnectedOn(E, V) THEN 0
       ELSE IF \A a, b \in V : a # b => Adjacent(E, a, b) THEN n - 1
       ELSE MinOf({Cardinality(S) : S \in {X \in SUBSET V : ~ConnectedOn(E, V \ X)}})

\* connectivity(stencils)
connectivity(st) == node_connectivity(stencils_to_edges(st))

\* ------------------------------------------------------------- state
VARIABLES
    call,        \* the entry point called: "nearest", "stencil_network",
                 \* "distance" or "is_connected"
    query,       \* query table (the nodes, for stencil_network)
    qdim,        \* len(query.shape)
    population,  \* population table (the nodes, for stencil_network)
    pdim,        \* len(population.shape)
    Narg,        \* the caller's N: [none, val]
    C,           \* stencil_network's C: [none, val]
    vert,        \* the boundary: [none, walls]
    excluding,   \* the exclusion set: [none, idx]
    stencils,    \* is_connected's stencil table
    pc,          \* position in the code
    N,           \* nearest's parameter N of the call in progress
    neighbors,   \* nearest's neighbour table
    dist,        \* nearest's distance table
    i,           \* nearest's loop index over the query points
    dist_i,      \* distances of the current candidate row
    query_size,  \* size of the current candidate set
    tested,      \* stencil_network: (size, connectivity) pairs evaluated
    treeQueries, \* number of queries put to the spatial index
    outcome,     \* "running", "returned" or "raised"
    err,         \* kind of the error raised, "none" otherwise: the
                 \* StencilErrors "shape", "count", "neighbor" and
                 \* "connectivity", or "IndexError" (no StencilError)
    treeTies,    \* how the spatial index orders equidistant points
    sortTies,    \* how argsort orders equal distances
    oracle,      \* the segments handed to rbf.geometry.intersection_count
    widening,    \* the candidate-set sizes the current row went through
    result       \* is_connected's return value: "True" or "False"

inputs == <<call, query, qdim, population, pdim, Narg, C, vert, excluding,
            stencils>>
vars == <<call, query, qdim, population, pdim, Narg, C, vert, excluding,
          stencils, pc, N, neighbors, dist, i, dist_i, query_size, tested,
          treeQueries, outcome, err, treeTies, sortTies, oracle, widening,
          result>>

\* N defaults to min(nodes.shape[0], 10) (line 227)
DefaultSize == 10

None == [none |-> TRUE, val |-> 0]
Some(x) == [none |-> FALSE, val |-> x]
NoVert == [none |-> TRUE, walls |-> {}]
NoExcluding == [none |-> TRUE, idx |-> {}]

\* ten evenly spaced collinear nodes, indexed in coordinate order
Line(spacing) == [j \in 0 .. 9 |-> j * spacing]
LineTables == {Line(sp) : sp \in 1 .. MaxSpacing}

\* one node more than the default stencil size, evenly spaced
LongLine(spacing) == [j \in 0 .. DefaultSize |-> j * spacing]
LongLineTables == {LongLine(sp) : sp \in 1 .. MaxSpacing}

\* tables of n points; the rows are listed in coordinate order (the code
\* reads an index only to break a tie, which the tie policies cover)
Tables(n) == {Table(t) : t \in SortedSeqs(n, 0)}

VertArgs == {NoVert} \cup {[none |-> FALSE, walls |-> W] : W \in SUBSET Walls}

ExcludingArgs(pop) ==
    {NoExcluding} \cup {[none |-> FALSE, idx |-> X] : X \in SUBSET DOMAIN pop}

\* no row is being measured
NoWidening == [row |-> 0, sizes |-> <<>>]

Locals0 ==
    /\ pc = "start"
    /\ N = 0
    /\ neighbors = <<>>
    /\ dist = <<>>
    /\ i = 0
    /\ dist_i = <<>>
    /\ query_size = 0
    /\ tested = {}
    /\ treeQueries = 0
    /\ outcome = "running"
    /\ err = "none"
    /\ treeTies = "unset"
    /\ sortTies = "unset"
    /\ oracle = {}
    /\ widening = NoWidening
    /\ result = "none"

\* a direct call of nearest on well-shaped tables: for no or one query
\* point, or for the population itself as the query table
InitNearest ==
    /\ call = "nearest"
    /\ qdim = 2 /\ pdim = 2
    /\ \E P \in 0 .. MaxP : population \in Tables(P)
    /\ query \in Tables(0) \cup Tables(1) \cup {population}
    /\ Narg \in {Some(n) : n \in 0 .. Size(population)}
    /\ C = None
    /\ vert \in VertArgs
    /\ excluding \in ExcludingArgs(population)
    /\ stencils = <<>>

\* a direct call of nearest with a count outside 0..|population|
InitCount ==
    /\ call = "nearest"
    /\ qdim = 2 /\ pdim = 2
    /\ \E P \in 0 .. MaxP : population \in Tables(P)
    /\ query \in Tables(0) \cup Tables(1)
    /\ Narg \in {Some(-1), Some(Size(population) + 1)}
    /\ C = None
    /\ vert \in {NoVert, [none |-> FALSE, walls |-> Walls]}
    /\ excluding \in {NoExcluding, [none |-> FALSE, idx |-> {}]}
    /\ stencils = <<>>

\* a direct call of nearest where a table is not 2-D (a 0-d table has no
\* rows; shape[0] of the others is the table's size)
InitShapes ==
    /\ call = "nearest"
    /\ qdim \in 0 .. 3 /\ pdim \in 0 .. 3
    /\ ~(qdim = 2 /\ pdim = 2)
    /\ population \in (IF pdim = 0 THEN Tables(0) ELSE Tables(0) \cup Tables(1))
    /\ query \in (IF qdim = 0 THEN Tables(0) ELSE Tables(0) \cup Tables(1))
    /\ Narg \in {Some(n) : n \in -1 .. 2}
    /\ C = None
    /\ vert = NoVert
    /\ excluding = NoExcluding
    /\ stencils = <<>>

\* a call of stencil_network
InitNetwork ==
    /\ call = "stencil_network"
    /\ \/ /\ pdim = 2
          /\ \E P \in 0 .. MaxP : population \in Tables(P)
          /\ vert \in VertArgs
       \/ /\ pdim \in {0, 1, 3}
          /\ population = Table(<<>>)
          /\ vert = NoVert
    /\ qdim = pdim
    /\ query = population
    /\ \/ /\ C = None
          /\ Narg \in {None} \cup {Some(n) : n \in -1 .. (Size(population) + 1)}
       \/ /\ C \in {Some(c) : c \in 0 .. MaxC}
          /\ Narg \in {None, Some(0), Some(Size(population))}
    /\ excluding = NoExcluding
    /\ stencils = <<>>

\* stencil_network(nodes, C=MaxC) on one node more than MaxP: the search
\* goes through more than two sizes
InitGrowing ==
    /\ call = "stencil_network"
    /\ qdim = 2 /\ pdim = 2
    /\ population \in Tables(MaxP + 1)
    /\ query = population
    /\ Narg = None
    /\ C = Some(MaxC)
    /\ vert \in VertArgs
    /\ excluding = NoExcluding
    /\ stencils = <<>>

\* stencil_network(nodes, N=3) and stencil_network(nodes) on ten or eleven
\* collinear nodes
InitLine ==
    /\ call = "stencil_network"
    /\ qdim = 2 /\ pdim = 2
    /\ population \in LineTables \cup LongLineTables
    /\ query = population
    /\ Narg \in {Some(3), None}
    /\ C = None
    /\ vert = NoVert
    /\ excluding = NoExcluding
    /\ stencils = <<>>

\* a direct call distance(test, pnts, vert, smp): query holds the one test
\* point, population the candidate points
InitDistance ==
    /\ call = "distance"
    /\ qdim = 1 /\ pdim = 2
    /\ query \in Tables(1)
    /\ \E M \in 0 .. MaxP : population \in Tables(M)
    /\ Narg = None
    /\ C = None
    /\ vert \in VertArgs
    /\ excluding = NoExcluding
    /\ stencils = <<>>

\* all increasing sequences of length n over lo..hi
RECURSIVE SortedRows(_, _, _)
SortedRows(n, lo, hi) ==
    IF n = 0 THEN {<<>>}
    ELSE UNION {{<<c>> \o r : r \in SortedRows(n - 1, c + 1, hi)} : c \in lo .. hi}

\* stencil tables of M rows and S columns of node indices; a row lists S
\* distinct nodes, here in index order (the graph does not depend on the
\* order)
StencilTables ==
    UNION {[0 .. (M - 1) -> SortedRows(S, 0, M - 1)] :
              M \in 1 .. MaxP, S \in 1 .. MaxP}

\* a direct call is_connected(stencils)
InitConnected ==
    /\ call = "is_connected"
    /\ stencils \in StencilTables
    /\ qdim = 2 /\ pdim = 2
    /\ query = <<>> /\ population = <<>>
    /\ Narg = None
    /\ C = None
    /\ vert = NoVert
    /\ excluding = NoExcluding

Init ==
    Locals0 /\ (InitNearest \/ InitCount \/ InitShapes \/ InitNetwork \/ InitLine
                   \/ InitDistance \/ InitConnected \/ InitGrowing)

\* ----------------------------------------------------------- distance
\* the user calls distance: one distance per candidate point (lines 50-75)
DistanceCall ==
    /\ call = "distance"
    /\ pc = "start"
    /\ \E row \in {[k \in 1 .. Size(population) |-> k - 1]} :
          /\ dist_i' = [k \in DOMAIN row |->
                           distance(query[0], population[row[k]], vert)]
          /\ oracle' = oracle \cup OracleSegments(query[0], population, row)
    /\ pc' = "done"
    /\ outcome' = "returned"
    /\ UNCHANGED <<inputs, N, neighbors, dist, i, query_size, tested, treeQueries,
                   err, treeTies, sortTies, widening, result>>

\* ------------------------------------------------------- is_connected
\* the user calls is_connected (lines 26-35)
IsConnectedCall ==
    /\ call = "is_connected"
    /\ pc = "start"
    /\ result' = (IF is_connected(stencils) THEN "True" ELSE "False")
    /\ pc' = "done"
    /\ outcome' = "returned"
    /\ UNCHANGED <<inputs, N, neighbors, dist, i, dist_i, query_size, tested,
                   treeQueries, err, treeTies, sortTies, oracle, widening>>

\* ------------------------------------------------------------ nearest
\* lines 109-135: the error nearest raises before it searches, "none" when
\* the arguments pass.  population.shape[0] is read at line 114/118, before
\* the shape checks, and a 0-d table has no shape[0].
Validate(qd, pd, P, n) ==
    IF pd = 0 THEN "IndexError"
    ELSE IF qd # 2 THEN "shape"
    ELSE IF pd # 2 THEN "shape"
    ELSE IF n > P THEN "count"
    ELSE IF n < 0 THEN "count"
    ELSE "none"

\* faulty variant of SkipsTree: the special case of line 139 missing
SkipsTree_never(n) == FALSE

\* line 139: N = 0 is answered without the spatial index
SkipsTree(n) == n = 0

\* line 149: neither a boundary nor an exclusion set: the tree's answer is
\* returned as it is
FastPath(v, ex) == v.none /\ ex.none

\* lines 164-166: the next candidate-set size
NextQuerySize(qs, n, P) == IF qs + n > P THEN P ELSE qs + n

\* line 161: the row still holds an infinite distance
WhileCond(d) == AnyInf(d)

\* line 176: the whole population was searched and a distance is infinite
Exhausted(qs, P, d) == qs = P /\ AnyInf(d)

\* faulty variant of SelectRow: the first N candidates, the sorted order ignored
SelectRow_unsorted(neighbors_i, order, n) == [k \in 1 .. n |-> neighbors_i[k]]

\* line 173: the candidates at the first N positions of the sorted order
SelectRow(neighbors_i, order, n) == [k \in 1 .. n |-> neighbors_i[order[k]]]

Raise(kind) ==
    /\ pc' = "done"
    /\ outcome' = "raised"
    /\ err' = kind

\* nearest returns (lines 150, 180) to its caller: to the connectivity test
\* of stencil_network (line 216) or, with the table, to the user
NearestReturns ==
    /\ err' = err
    /\ IF call = "stencil_network" /\ ~C.none
       THEN pc' = "sn_while" /\ outcome' = outcome
       ELSE pc' = "done" /\ outcome' = "returned"

\* lines 109-152: a call nearest(query, population, n, vert, smp, excluding)
\* up to the head of the loop over the query points
Prologue(n) ==
    /\ N' = n
    /\ i' = 0
    /\ dist_i' = <<>>
    /\ query_size' = 0
    /\ widening' = NoWidening
    /\ LET e == Validate(qdim, pdim, Size(population), n)
       IN IF e # "none"
          THEN Raise(e) /\ UNCHANGED <<neighbors, dist, treeQueries, treeTies>>
          ELSE /\ IF SkipsTree(n)
                  THEN /\ neighbors' = [q \in DOMAIN query |-> <<>>]
                       /\ dist' = [q \in DOMAIN query |-> <<>>]
                       /\ UNCHANGED <<treeQueries, treeTies>>
                  ELSE /\ treeTies' \in Policies(treeTies)
                       /\ neighbors' = BatchQuery(query, population, n, treeTies')
                       /\ dist' = TreeDist(query, population, neighbors')
                       /\ treeQueries' = treeQueries + 1
               /\ IF FastPath(vert, excluding) \/ Size(query) = 0
                  THEN NearestReturns
                  ELSE pc' = "for" /\ outcome' = outcome /\ err' = err

\* after row i is settled: the next query point, or line 180
NextRow ==
    /\ i' = i + 1
    /\ IF i + 1 < Size(query)
       THEN pc' = "for" /\ outcome' = outcome /\ err' = err
       ELSE NearestReturns

\* the user calls nearest
NearestCall ==
    /\ call = "nearest"
    /\ pc = "start"
    /\ Prologue(Narg.val)
    /\ UNCHANGED <<inputs, tested, sortTies, oracle, result>>

\* faulty variant of QueryPoint: every row is measured from the first query point
QueryPoint_first(q, j) == q[0]

\* query[i] of lines 157, 168 and 170: the point row i is computed for
QueryPoint(q, j) == q[j]

\* faulty variant of ArgumentsKept: distance() works in place on test, its
\* view of row i of the query table
ArgumentsKept_in_place ==
    /\ query' = [query EXCEPT ![i] = 0]
    /\ UNCHANGED <<call, qdim, population, pdim, Narg, C, vert, excluding,
                   stencils>>

\* lines 157 and 170 hand distance() the view query[i] and the copy
\* population[neighbors_i]; distance() assigns to its own arrays only
\* (np.repeat, pnts-test, dist, cc: lines 66-74), and nearest to the tables
\* the tree returned (lines 158, 171-175)
ArgumentsKept == UNCHANGED inputs

\* lines 152-161: row i of the tree's answer is measured; the row is kept
\* when no distance is infinite
RowStart ==
    /\ pc = "for"
    /\ dist_i' = MaskedDist(QueryPoint(query, i), population, neighbors[i],
                            vert, excluding)
    /\ query_size' = N
    /\ oracle' = oracle \cup
                    OracleSegments(QueryPoint(query, i), population, neighbors[i])
    /\ widening' = [row |-> i, sizes |-> <<N>>]
    /\ IF WhileCond(dist_i')
       THEN pc' = "while" /\ i' = i /\ outcome' = outcome /\ err' = err
       ELSE NextRow
    /\ ArgumentsKept
    /\ UNCHANGED <<N, neighbors, dist, tested, treeQueries, treeTies, sortTies,
                   result>>

\* lines 161-178: one round of the widening loop for row i.  A query of
\* size 1 for one point returns scalars, and line 173 indexes the scalar.
Widen ==
    /\ pc = "while"
    /\ query_size' = NextQuerySize(query_size, N, Size(population))
    /\ treeQueries' = treeQueries + 1
    /\ widening' = [widening EXCEPT !.sizes = Append(@, query_size')]
    /\ IF query_size' = 1
       THEN /\ Raise("IndexError")
            /\ UNCHANGED <<neighbors, dist, dist_i, i, sortTies, oracle>>
       ELSE \E x \in {QueryPoint(query, i)} :
            \E neighbors_i \in {TreeQuery(population, x, query_size', treeTies)} :
            \E d \in {MaskedDist(x, population, neighbors_i, vert, excluding)} :
            \E policy \in Policies(sortTies) :
            \E order \in {ArgsortFirst(d, N, policy)} :
                   /\ sortTies' = policy
                   /\ oracle' = oracle \cup
                          OracleSegments(x, population, neighbors_i)
                   /\ neighbors' = [neighbors EXCEPT
                                      ![i] = SelectRow(neighbors_i, order, N)]
                   /\ dist_i' = [k \in 1 .. N |-> d[order[k]]]
                   /\ dist' = [dist EXCEPT ![i] = dist_i']
                   /\ IF Exhausted(query_size', Size(population), dist_i')
                      THEN Raise("neighbor") /\ i' = i
                      ELSE IF WhileCond(dist_i')
                      THEN pc' = "while" /\ i' = i /\ outcome' = outcome /\ err' = err
                      ELSE NextRow
    /\ ArgumentsKept
    /\ UNCHANGED <<N, tested, treeTies, result>>

\* ------------------------------------------------------ stencil_network
\* faulty variant of DefaultN: the default is the node count, never capped
DefaultN_uncapped(M) == M

\* line 227: N = min(nodes.shape[0], 10)
DefaultN(M) == IF M < DefaultSize THEN M ELSE DefaultSize

\* faulty variant of StartSize: the caller's N is kept as the first size
StartSize_keeps_N(narg) == IF narg.none THEN 2 ELSE narg.val

\* line 214: with a connectivity target the search starts at N = 2,
\* whatever N the caller passed
StartSize(narg) == 2

\* lines 211-215 and 225-229: the first call of nearest
StencilNetworkCall ==
    /\ call = "stencil_network"
    /\ pc = "start"
    /\ IF ~C.none THEN Prologue(StartSize(Narg))
       ELSE IF ~Narg.none THEN Prologue(Narg.val)
       ELSE IF pdim = 0
       THEN /\ Raise("IndexError")
            /\ UNCHANGED <<N, neighbors, dist, i, dist_i, query_size, treeQueries,
                           treeTies, widening>>
       ELSE Prologue(DefaultN(Size(population)))
    /\ UNCHANGED <<inputs, tested, sortTies, oracle, result>>

\* faulty variant of MissesTarget: a stencil that just meets the target is rejected
MissesTarget_strict(c, target) == c <= target

\* line 216: the stencil misses the connectivity target
MissesTarget(c, target) == c < target

\* lines 216-223: the connectivity of the stencil is evaluated; below the
\* target the size grows by one and nearest is called again
ConnectivityTest ==
    /\ pc = "sn_while"
    /\ LET c == connectivity(neighbors)
       IN /\ tested' = tested \cup {<<N, c>>}
          /\ IF MissesTarget(c, C.val)
             THEN IF N + 1 > Size(population)
                  THEN /\ Raise("connectivity")
                       /\ UNCHANGED <<N, neighbors, dist, i, dist_i, query_size,
                                      treeQueries, treeTies, widening>>
                  ELSE Prologue(N + 1)
             ELSE /\ pc' = "done"
                  /\ outcome' = "returned"
                  /\ err' = err
                  /\ UNCHANGED <<N, neighbors, dist, i, dist_i, query_size,
                                 treeQueries, treeTies, widening>>
    /\ UNCHANGED <<inputs, sortTies, oracle, result>>

Next ==
    \/ NearestCall \/ RowStart \/ Widen
    \/ StencilNetworkCall \/ ConnectivityTest
    \/ DistanceCall \/ IsConnectedCall

Spec == Init /\ [][Next]_vars

\* =================================================================
\* Properties
\* =================================================================
\* the call runs nearest (directly or from stencil_network)
Searches == call \in {"nearest", "stencil_network"}
Returned == pc = "done" /\ outcome = "returned"
Raised == pc = "done" /\ outcome = "raised"
P == Size(population)
Q == Size(query)
SlowPath == ~FastPath(vert, excluding)

\* brute-force scan: the boundary-aware distance from query point q to
\* population point j, infinite for an excluded point
ScanDist(q, j) ==
    IF (~excluding.none) /\ j \in excluding.idx THEN Inf
    ELSE IF Euclid(query[q], population[j]) # 0
            /\ intersection_count(query[q], population[j], Vertices(vert)) > 0
    THEN Inf
    ELSE Euclid(query[q], population[j])

\* the population points query point q can take as neighbours
ValidFor(q) == {j \in DOMAIN population : ScanDist(q, j) # Inf}

\* C1: when a call with a boundary returns, no segment from a query point
\* to one of its listed neighbours (coincident points aside) crosses the
\* boundary, whether the row was kept or widened.
C1_NoCrossing ==
    (Searches /\ Returned /\ ~vert.none) =>
        \A q \in DOMAIN neighbors : \A k \in DOMAIN neighbors[q] :
            LET j == neighbors[q][k]
            IN population[j] # query[q] =>
                 intersection_count(query[q], population[j], vert.walls) = 0

\* a call returned whose last row was widened past a crossing candidate
C1_Witness ==
    /\ Returned /\ ~vert.none /\ excluding.none /\ Q > 0
    /\ query_size > N /\ N >= 1
    /\ \E j \in DOMAIN population :
         intersection_count(query[Q - 1], population[j], vert.walls) > 0

\* C2: no index of the exclusion set appears in a returned row, for an
\* exclusion set smaller than the population.
C2_NoExcluded ==
    (Searches /\ Returned /\ ~excluding.none /\ Cardinality(excluding.idx) < P) =>
        \A q \in DOMAIN neighbors : \A k \in DOMAIN neighbors[q] :
            neighbors[q][k] \notin excluding.idx

\* a call returned a widened row although an excluded point coincides
\* with the query point
C2_Witness ==
    /\ Returned /\ ~excluding.none /\ N >= 1 /\ Q > 0
    /\ query_size > N
    /\ Cardinality(excluding.idx) < P
    /\ \E j \in excluding.idx : population[j] = query[Q - 1]

\* C3: a returned table has one row per query point; every row holds N
\* distinct population indices in non-decreasing order of distance, and its
\* distances are the N smallest of a brute-force scan of the population.
C3_MatchesBruteForce ==
    (Searches /\ Returned) =>
        /\ DOMAIN neighbors = DOMAIN query
        /\ DOMAIN dist = DOMAIN query
        /\ \A q \in DOMAIN query :
             /\ Len(neighbors[q]) = N /\ Len(dist[q]) = N
             /\ \A k \in 1 .. N : neighbors[q][k] \in DOMAIN population
             /\ \A k, l \in 1 .. N : k # l => neighbors[q][k] # neighbors[q][l]
             /\ \A k \in 1 .. N : dist[q][k] = ScanDist(q, neighbors[q][k])
             /\ \A k \in 1 .. (N - 1) : dist[q][k] <= dist[q][k + 1]
             /\ \A j \in DOMAIN population \ Range(neighbors[q]) :
                  \A k \in 1 .. N : dist[q][k] <= ScanDist(q, j)

\* a slow-path call returned a widened row that skips an invalid point
\* nearer than a listed neighbour
C3_Witness ==
    /\ Returned /\ SlowPath /\ Q > 0 /\ N >= 1 /\ query_size > N
    /\ \E j \in DOMAIN population \ ValidFor(Q - 1) :
         Euclid(query[Q - 1], population[j]) < dist[Q - 1][N]

\* query point q has fewer than N points that are neither excluded nor
\* behind the boundary
Unsatisfiable(q) == Cardinality(ValidFor(q)) < N

\* C4: on the slow path with 1 <= N <= |population|, nearest fails with the
\* unsatisfiable-neighbor-request error exactly when some query point has
\* fewer than N valid points; the error is raised at the lowest such query
\* point, no table is returned, and a returned table holds no infinite
\* distance.
C4_UnsatisfiableError ==
    (call = "nearest" /\ pc = "done" /\ qdim = 2 /\ pdim = 2 /\ SlowPath
        /\ 1 <= N /\ N <= P) =>
        /\ (err = "neighbor") <=> (\E q \in DOMAIN query : Unsatisfiable(q))
        /\ (\E q \in DOMAIN query : Unsatisfiable(q)) =>
              /\ outcome = "raised"
              /\ Unsatisfiable(i)
              /\ \A q \in 0 .. (i - 1) : ~Unsatisfiable(q)
        /\ outcome = "returned" =>
              \A q \in DOMAIN dist : \A k \in DOMAIN dist[q] : dist[q][k] # Inf

ConnectivityMode == call = "stencil_network" /\ ~C.none

\* C5: in connectivity-target mode the returned stencil has connectivity
\* >= C, and every smaller size from 2 upward was built and found to have
\* connectivity < C.
C5_SmallestSize ==
    (ConnectivityMode /\ Returned) =>
        /\ N >= 2
        /\ \A q \in DOMAIN neighbors : Len(neighbors[q]) = N
        /\ connectivity(neighbors) >= C.val
        /\ \A t \in 2 .. (N - 1) :
             \E pr \in tested : pr[1] = t /\ pr[2] < C.val

\* a stencil was returned after at least one smaller size missed the target
C5_Witness ==
    /\ ConnectivityMode /\ Returned /\ N >= 3
    /\ \E pr \in tested : pr[1] = 2 /\ pr[2] < C.val

\* C6: in connectivity-target mode, when no stencil size within the node
\* count reaches connectivity C, stencil_network fails with the
\* unsatisfiable-connectivity-target error and with no other error kind.
C6_OnlyConnectivityError ==
    (ConnectivityMode /\ pc = "done"
        /\ ~(\E pr \in tested : pr[2] >= C.val)) =>
        (outcome = "raised" /\ err = "connectivity")

FixedSizeMode == call = "stencil_network" /\ C.none

\* C7 (as stated): in fixed-size mode no row of the returned stencil
\* contains its own node's index.
C7_NoSelfIndex ==
    (FixedSizeMode /\ Returned) =>
        \A q \in DOMAIN neighbors : q \notin Range(neighbors[q])

\* C7 (amended): in fixed-size mode with N >= 1, the row of every node that
\* no other node coincides with starts with the node's own index, at
\* distance 0.
C7_SelfIndexFirst ==
    (FixedSizeMode /\ Returned /\ N >= 1) =>
        \A q \in DOMAIN neighbors :
            (\A j \in DOMAIN population : j # q => population[j] # population[q])
                => (neighbors[q][1] = q /\ dist[q][1] = 0)

\* a stencil of pairwise distinct nodes was returned past a boundary
C7_Witness ==
    /\ FixedSizeMode /\ Returned /\ N >= 1 /\ P >= 2
    /\ ~vert.none /\ vert.walls # {}
    /\ \A j, k \in DOMAIN population : j # k => population[j] # population[k]

\* C8: for ten evenly spaced collinear nodes, no boundary and N = 3, the row
\* of an interior node i holds {i-1, i, i+1}, the row of node 0 holds
\* {0, 1, 2} and the row of node 9 holds {9, 8, 7}, each in non-decreasing
\* order of distance.
C8_LineStencil ==
    (FixedSizeMode /\ Returned /\ population \in LineTables /\ vert.none
        /\ ~Narg.none /\ Narg.val = 3) =>
        \A q \in 0 .. 9 :
            /\ Len(neighbors[q]) = 3
            /\ Range(neighbors[q]) = (IF q = 0 THEN {0, 1, 2}
                                      ELSE IF q = 9 THEN {9, 8, 7}
                                      ELSE {q - 1, q, q + 1})
            /\ dist[q][1] <= dist[q][2] /\ dist[q][2] <= dist[q][3]

\* the stencil of the ten collinear nodes was returned
C8_Witness ==
    /\ FixedSizeMode /\ Returned /\ population \in LineTables /\ vert.none
    /\ N = 3 /\ Size(neighbors) = 10

DirectCall == call = "nearest" /\ qdim = 2 /\ pdim = 2

\* C9: a call of nearest with N = 0 on 2-D tables never raises, never
\* queries the spatial index and returns tables of Q rows and 0 columns, on
\* the fast path and on the slow path.
C9_ZeroNeighbours ==
    (DirectCall /\ Narg.val = 0) =>
        /\ err = "none" /\ outcome # "raised"
        /\ treeQueries = 0
        /\ pc # "while"
        /\ pc = "done" =>
             /\ outcome = "returned"
             /\ DOMAIN neighbors = DOMAIN query /\ DOMAIN dist = DOMAIN query
             /\ \A q \in DOMAIN query : neighbors[q] = <<>> /\ dist[q] = <<>>

\* a slow-path call with N = 0, a boundary and an exclusion set returned
\* for several query points
C9_Witness ==
    /\ DirectCall /\ Narg.val = 0 /\ Returned /\ Q >= 2
    /\ ~vert.none /\ vert.walls # {}
    /\ ~excluding.none /\ excluding.idx # {}

\* C10: nearest fails with the invalid-shape error whenever a table is not
\* 2-D and with the invalid-count error whenever N < 0 or N > |population|,
\* before any query of the spatial index and without a result.
C10_ValidationErrors ==
    (call = "nearest" /\ pc # "start") =>
        /\ (qdim # 2 \/ pdim # 2) =>
              (outcome = "raised" /\ err = "shape" /\ treeQueries = 0)
        /\ (qdim = 2 /\ pdim = 2 /\ (Narg.val < 0 \/ Narg.val > P)) =>
              (outcome = "raised" /\ err = "count" /\ treeQueries = 0)

\* ------------------------------------------ nearest as a function
\* The code of nearest and of the loop of stencil_network read as functions
\* of their arguments and of the two tie orders of the libraries.

\* lines 161-178 for one query point x, entered with candidate-set size qs
RECURSIVE WidenedRow(_, _, _, _, _, _, _, _)
WidenedRow(x, pop, n, v, ex, tp, sp, qs) ==
    LET size == NextQuerySize(qs, n, Size(pop))
    IN IF size = 1 THEN [err |-> "IndexError", row |-> <<>>, d |-> <<>>]
       ELSE LET cand  == TreeQuery(pop, x, size, tp)
                d     == MaskedDist(x, pop, cand, v, ex)
                order == ArgsortFirst(d, n, sp)
                d_i   == [k \in 1 .. n |-> d[order[k]]]
            IN IF Exhausted(size, Size(pop), d_i)
               THEN [err |-> "neighbor", row |-> <<>>, d |-> <<>>]
               ELSE IF WhileCond(d_i)
               THEN WidenedRow(x, pop, n, v, ex, tp, sp, size)
               ELSE [err |-> "none", row |-> SelectRow(cand, order, n), d |-> d_i]

\* lines 144 and 152-178 for one query point x
RowOf(x, pop, n, v, ex, tp, sp) ==
    LET row == TreeQuery(pop, x, n, tp)
        d   == MaskedDist(x, pop, row, v, ex)
    IN IF WhileCond(d) THEN WidenedRow(x, pop, n, v, ex, tp, sp, n)
       ELSE [err |-> "none", row |-> row, d |-> d]

\* nearest(q, pop, n, v, smp, ex): the error, or the neighbour table
NearestOf(q, qd, pop, pd, n, v, ex, tp, sp) ==
    LET e == Validate(qd, pd, Size(pop), n)
    IN IF e # "none" THEN [err |-> e, rows |-> <<>>]
       ELSE IF FastPath(v, ex)
       THEN [err |-> "none", rows |-> BatchQuery(q, pop, n, tp)]
       ELSE LET r   == [j \in DOMAIN q |-> RowOf(q[j], pop, n, v, ex, tp, sp)]
                bad == {j \in DOMAIN q : r[j].err # "none"}
            IN IF bad = {} THEN [err |-> "none", rows |-> [j \in DOMAIN q |-> r[j].row]]
               ELSE [err |-> r[MinOf(bad)].err, rows |-> <<>>]

\* lines 215-223 from size n on: the error, or the stencil
RECURSIVE TargetLoop(_, _, _, _, _, _, _)
TargetLoop(nodes, nd, c, v, tp, sp, n) ==
    LET r == NearestOf(nodes, nd, nodes, nd, n, v, NoExcluding, tp, sp)
    IN IF r.err # "none" THEN r
       ELSE IF connectivity(r.rows) < c
       THEN IF n + 1 > Size(nodes) THEN [err |-> "connectivity", rows |-> <<>>]
            ELSE TargetLoop(nodes, nd, c, v, tp, sp, n + 1)
       ELSE r

\* C11: with a connectivity target the caller's N has no effect: the
\* outcome of stencil_network (the stencil returned or the error raised) is
\* the one the nodes, C and the boundary determine by the search from size
\* 2, for every N passed
C11_NIgnored ==
    (ConnectivityMode /\ pc = "done") =>
        LET r == TargetLoop(population, pdim, C.val, vert, treeTies, sortTies, 2)
        IN /\ err = r.err
           /\ r.err = "none" => (outcome = "returned" /\ neighbors = r.rows)
           /\ r.err # "none" => outcome = "raised"

\* a stencil of three columns is returned to a caller who passed N = 0
C11_Witness ==
    /\ ConnectivityMode /\ Returned
    /\ ~Narg.none /\ Narg.val = 0
    /\ \A a \in DOMAIN neighbors : Len(neighbors[a]) = 3
    /\ P = 3

\* C12: in fixed-size mode a stencil that stencil_network returns has one
\* row per node and, in every row, N columns when N was passed and
\* min(10, number of nodes) columns when it was not
C12_FixedSizeShape ==
    (FixedSizeMode /\ Returned) =>
        /\ DOMAIN neighbors = DOMAIN population
        /\ \A q \in DOMAIN neighbors :
              Len(neighbors[q]) = (IF ~Narg.none THEN Narg.val
                                   ELSE IF P < 10 THEN P ELSE 10)

\* eleven nodes and no N: the stencil returned has ten columns
C12_Witness ==
    /\ FixedSizeMode /\ Returned /\ Narg.none
    /\ P = 11 /\ Size(neighbors) = 11
    /\ Len(neighbors[0]) = 10

\* C13: distance(test, candidates, boundary) gives 0 to a candidate that
\* coincides with the test point and no segment of zero length is ever
\* handed to the oracle; any other candidate gets its Euclidean distance
\* when the oracle counts no crossing and infinity when it counts one or
\* more; without a boundary no candidate gets infinity
C13_DistanceValues ==
    /\ \A seg \in oracle : seg[1] # seg[2]
    /\ (call = "distance" /\ Returned) =>
          \A k \in DOMAIN population :
              LET t     == query[0]
                  c     == population[k]
                  d     == dist_i[k + 1]
                  count == intersection_count(t, c, Vertices(vert))
              IN /\ c = t => d = 0
                 /\ c # t =>
                      /\ count = 0 => d = (IF t > c THEN t - c ELSE c - t)
                      /\ count >= 1 => d = Inf
                 /\ vert.none => d # Inf

\* one call of distance meets a coincident candidate, a candidate behind the
\* boundary and a candidate in plain sight
C13_Witness ==
    /\ call = "distance" /\ Returned /\ ~vert.none
    /\ \E k \in DOMAIN population : population[k] = query[0] /\ dist_i[k + 1] = 0
    /\ \E k \in DOMAIN population : dist_i[k + 1] = Inf
    /\ \E k \in DOMAIN population : dist_i[k + 1] \in 1 .. MaxCoord
    /\ oracle # {}

\* nodes a and b are joined by a stencil entry, in either direction
Linked(a, b) == b \in Range(stencils[a]) \/ a \in Range(stencils[b])

\* no group of nodes is cut off from the remaining nodes
OneComponent ==
    \A A \in SUBSET DOMAIN stencils :
        (A # {} /\ A # DOMAIN stencils) =>
            \E a \in A : \E b \in DOMAIN stencils \ A : Linked(a, b)

C15_ConnectivityMonotone ==
    ConnectivityMode =>
        \A a, b \in tested : a[1] < b[1] => a[2] <= b[2]

\* three sizes were evaluated and the connectivity grew on the way
C15_Witness ==
    /\ ConnectivityMode /\ Cardinality(tested) >= 3
    /\ \E a, b \in tested : a[1] < b[1] /\ a[2] < b[2]

ValidAmong(q, size) ==
    Cardinality({j \in Range(TreeQuery(population, query[q], size, treeTies)) :
                    ScanDist(q, j) # Inf})

\* the loop over the query points ended in an error
LoopRaised == Raised /\ err # "connectivity"

\* C17: on the slow path with N >= 1 the candidate-set size of a query
\* point takes the values N, 2N, 3N, ..., the last one capped at
\* |population|; the widening stops at the first size with at least N valid
\* candidates among the nearest, and otherwise ends in the
\* unsatisfiable-neighbor error in the round whose size is |population|; a
\* query point goes through at most ceil(|population| / N) sizes
C17_WideningSizes ==
    (Searches /\ SlowPath /\ N >= 1 /\ widening.sizes # <<>>) =>
        LET s == widening.sizes
            q == widening.row
            m == Len(widening.sizes)
        IN /\ \A k \in 1 .. m : s[k] = (IF k * N > P THEN P ELSE k * N)
           /\ \A k \in 1 .. (m - 1) : ValidAmong(q, s[k]) < N
           /\ pc = "while" => ValidAmong(q, s[m]) < N
           /\ (pc # "while" /\ ~LoopRaised) => ValidAmong(q, s[m]) >= N
           /\ LoopRaised =>
                 (err = "neighbor" /\ s[m] = P /\ ValidAmong(q, P) < N)
           /\ (m >= 2 /\ s[m] = P /\ ValidAmong(q, P) < N) =>
                 (Raised /\ err = "neighbor")
           /\ Cardinality(Range(s)) <= (P + N - 1) \div N

\* the stencil sizes stencil_network has called nearest with so far
Tried == {t[1] : t \in tested} \cup (IF pc = "start" THEN {} ELSE {N})

\* C18: in connectivity-target mode stencil_network always comes to an end:
\* it tries the sizes 2, 3, 4, ... one at a time in increasing order, makes
\* at most NumNodes - 1 neighbour searches, never tries a size larger than
\* NumNodes, and ends by returning the first stencil whose connectivity is
\* at least C or by raising an error
C18_BoundedSearch ==
    ConnectivityMode =>
        /\ pc # "done" => ENABLED Next
        /\ pc # "start" => Tried = 2 .. N
        /\ Cardinality(Tried) <= (IF P >= 1 THEN P - 1 ELSE 0)
        /\ \A n \in Tried : n <= P
        /\ pc = "done" =>
              \/ Raised
              \/ /\ Returned
                 /\ connectivity(neighbors) >= C.val
                 /\ \A t \in tested : t[1] < N => t[2] < C.val

\* C19: on a slow-path call of nearest that returns, the row of query point
\* q (indices and distances) is the one that query[q], the population, N,
\* the boundary and the exclusion set determine: no other query point of
\* the batch, nor the position of q in the batch, enters it
C19_RowIndependence ==
    (Searches /\ Returned /\ SlowPath) =>
        \A q \in DOMAIN query :
            \E r \in {RowOf(query[q], population, N, vert, excluding,
                             treeTies, sortTies)} :
                /\ r.err = "none"
                /\ neighbors[q] = r.row
                /\ dist[q] = r.d

\* a batch of several query points returned with differing rows, the last
\* of them widened
C19_Witness ==
    /\ call = "nearest" /\ Returned /\ SlowPath /\ Q >= 2
    /\ widening.row = Q - 1 /\ Len(widening.sizes) >= 2
    /\ neighbors[0] # neighbors[Q - 1]
====
